---- MODULE Spec2Model ----
(***************************************************************************)
(* Model of aio-flowdock (src/flowdock.py): the EventStream of lines       *)
(* 110-159 under the specification Spec, and the Session of lines 15-107   *)
(* with the parameters its streams connect with under ApiSpec.             *)
(*                                                                         *)
(* One EventStream object is modelled.  Its state is the handle `_evt`,    *)
(* the EventSource objects it has constructed, the HTTP responses those    *)
(* sources read from, the decode-loop tasks scheduled on the event loop,   *)
(* and the notifications published through emit().                         *)
(*                                                                         *)
(* asyncio is single-threaded and cooperative: a coroutine runs without    *)
(* interruption from one suspension point to the next, so every action     *)
(* below is one such uninterrupted stretch of code.                        *)
(*                                                                         *)
(* EventSource (aiohttp_sse_client) is a dependency, not code of this      *)
(* repository.  The model follows the contract the code relies on:         *)
(*   - connect(retry) performs the HTTP request; a ClientConnectionError   *)
(*     with budget left calls on_error() and retries, otherwise the        *)
(*     failure calls on_error() (unless the source was closed) and is      *)
(*     raised; success calls on_open() (unless the source was closed) and  *)
(*     stores the response;                                                *)
(*   - iteration raises ValueError when the source has no response,        *)
(*     returns the next event, raises the transport's failure, and on a    *)
(*     clean end of the response calls on_error(), waits and reconnects    *)
(*     with no retry budget;                                               *)
(*   - close() marks the source closed and closes and drops its response;  *)
(*     a reader suspended on that response gets ClientConnectionError;     *)
(*   - on_open and on_error are called without arguments.                  *)
(*                                                                         *)
(* One Session is modelled, one call at a time: a call runs up to the      *)
(* request it hands to the transport session, and goes on when the         *)
(* transport answers or fails.                                             *)
(***************************************************************************)
EXTENDS Integers, Sequences, FiniteSets, TLC

\* ------------------------------------------------------------------ bounds
MaxSources == 2      \* EventSource objects constructed by connect()
MaxResponses == 2    \* HTTP responses opened (handshakes and reconnects)
MaxEvents == 2       \* push events delivered by the transport, in total
MaxRetry == 1        \* largest retry budget a caller passes
MaxBuffered == 1     \* events delivered to a response and not yet read

\* ------------------------------------------------------------- json.loads
\* Event payloads are texts over a small alphabet; json.loads is modelled on
\* the JSON subset  ws value ws,  value ::= digit | "[" ws [value ws] "]".
Digits == {"1", "2"}

DigitVal(c) == IF c = "1" THEN 1 ELSE 2

RECURSIVE SkipWs(_, _)
SkipWs(s, i) == IF i <= Len(s) /\ s[i] = " " THEN SkipWs(s, i + 1) ELSE i

JNum(n) == [t |-> "num", n |-> n, items |-> <<>>]
JList(items) == [t |-> "list", n |-> 0, items |-> items]
JFail == [ok |-> FALSE, val |-> JNum(0), next |-> 0]

RECURSIVE ParseValue(_, _)
ParseValue(s, i) ==
    IF i > Len(s) THEN JFail
    ELSE IF s[i] \in Digits
         THEN [ok |-> TRUE, val |-> JNum(DigitVal(s[i])), next |-> i + 1]
    ELSE IF s[i] = "["
         THEN LET j == SkipWs(s, i + 1) IN
              IF j <= Len(s) /\ s[j] = "]"
              THEN [ok |-> TRUE, val |-> JList(<<>>), next |-> j + 1]
              ELSE LET inner == ParseValue(s, j) IN
                   IF ~inner.ok THEN JFail
                   ELSE LET k == SkipWs(s, inner.next) IN
                        IF k <= Len(s) /\ s[k] = "]"
                        THEN [ok |-> TRUE, val |-> JList(<<inner.val>>),
                              next |-> k + 1]
                        ELSE JFail
    ELSE JFail

\* json.loads(evt.data): ok = FALSE stands for JSONDecodeError.
JsonLoads(s) ==
    LET r == ParseValue(s, SkipWs(s, 1)) IN
    IF r.ok /\ SkipWs(s, r.next) > Len(s)
    THEN [ok |-> TRUE, val |-> r.val]
    ELSE [ok |-> FALSE, val |-> JNum(0)]

\* The payloads the transport may deliver: a number after white space, a list,
\* and a truncated (malformed) list.
EventData == { <<" ", "1">>, <<"[", "2", "]">>, <<"[", "1">> }

\* The retry budgets a caller may pass to connect().
RetryInputs == (-1) .. MaxRetry

\* ------------------------------------------------------------------- state
VARIABLES
    evt,        \* self._evt: 0 is None, otherwise the index of an EventSource
    sources,    \* the EventSource objects constructed so far
    responses,  \* the HTTP responses opened so far
    tasks,      \* the decode-loop tasks created by create_task
    emitted,    \* the notifications published through emit(), in order
    op          \* the API call made last, if the last step was one

\* The state of the Session (lines 15-107) and of the requests it and the
\* streams it makes hand to the transport session.
VARIABLES
    call,       \* the Session call in progress: its position and its locals
    sent,       \* the requests handed to the transport session, in order
    published   \* the notifications published by the Session, in order

stream == <<evt, sources, responses, tasks, emitted, op>>

api == <<call, sent, published>>

vars == <<evt, sources, responses, tasks, emitted, op, call, sent, published>>

None == 0

\* `op` names the call of connect() or end() when that was the last step.
Step == [name |-> "step", arg |-> 0]

Delivered ==
    LET RECURSIVE Sum(_)
        Sum(i) == IF i = 0 THEN 0 ELSE Len(responses[i].hist) + Sum(i - 1)
    IN Sum(Len(responses))

\* emit(cat, payload): the dispatcher calls the listeners synchronously; the
\* model records what a listener of every category observes.  `task` and `src`
\* tell which decode loop and which event source the notification comes from.
Emit(log, cat, payload, t, s) ==
    Append(log, [cat |-> cat, payload |-> payload, task |-> t, src |-> s])

NoEvent == [n |-> 0, data |-> <<>>]
NoPayload == [k |-> "none"]
SelfPayload == [k |-> "self"]
EvtPayload(e) == [k |-> "evt", data |-> e]
MsgPayload(v) == [k |-> "json", val |-> v]
ExcPayload(x) == [k |-> "exc", exc |-> x]

\* No Session call has been made: no method, no arguments, no request issued,
\* no response, no result and no exception.
NoCall == [pc |-> "idle", fn |-> "none", args |-> [k |-> "none"], issued |-> 0,
           status |-> 0, result |-> [k |-> "none"],
           exc |-> [name |-> "none", status |-> 0, context |-> "none"]]

Init ==
    /\ call = NoCall
    /\ sent = <<>>
    /\ published = <<>>
    /\ evt = None
    /\ sources = <<>>
    /\ responses = <<>>
    /\ tasks = <<>>
    /\ emitted = <<>>
    /\ op = [name |-> "init", arg |-> 0]

\* ------------------------------------------------------ EventSource contract
\* EventSource._connected(): announce the connection unless the source is closed.
OnOpen(log, s) ==
    IF sources[s].ready # "CLOSED" THEN Emit(log, "connected", SelfPayload, 0, s)
    ELSE log

\* No on_error callback: a failure is not announced.
OnFailSilent(log, s) == log

\* EventSource._fail_connect(): announce the failure unless the source is closed.
OnFail(log, s) ==
    IF sources[s].ready # "CLOSED" THEN Emit(log, "error", NoPayload, 0, s)
    ELSE log

NewResponse(s) == [src |-> s, line |-> "live", feed |-> <<>>, hist |-> <<>>,
                   closed |-> FALSE]

\* The state of the connection that source s stands for, in the terms of the
\* connection's life cycle: connecting while connect() is suspended in the
\* handshake, open while a decode loop runs over it, closed otherwise.
Live(s) == \E t \in 1 .. Len(tasks) : tasks[t].source = s /\ tasks[t].pc # "done"

Phase(s) ==
    IF sources[s].ended # "no" THEN "closed"
    ELSE IF sources[s].hs = "pending" THEN "connecting"
    ELSE IF sources[s].hs = "ok" /\ Live(s) THEN "open"
    ELSE "closed"

\* ------------------------------------------------------------ connect()
\* A guard that lets every connect() through.
HandleAlwaysFree == TRUE

\* A guard that also lets connect() through once the connection is closed.
HandleFreeOrClosed == IF evt = None THEN TRUE ELSE Phase(evt) = "closed"

\* Line 121, `self._evt is not None`, negated: connect() may proceed.
HandleFree == evt = None

\* A connect() that hands the caller's budget on as it is.
RetryAsGiven(r) == r

\* Line 127, `retry = 0 if retry < 0 else retry`.
NormRetry(r) == IF r < 0 THEN 0 ELSE r

\* Lines 120-128 up to the suspension in the handshake.  A source records its
\* ready state, its response, the retry budget left, how the connect() call
\* that constructed it fared (hs) and, for the properties, the phase of the
\* connection at the moment end() closed it (ended).
Connect(r) ==
    /\ HandleFree
    /\ Len(sources) < MaxSources
    /\ sources' = Append(sources,
                    [ready |-> "CONNECTING", response |-> None,
                     retry |-> NormRetry(r),
                     hs |-> "pending", ended |-> "no"])
    /\ evt' = Len(sources) + 1
    /\ op' = [name |-> "connect", arg |-> r]
    /\ UNCHANGED <<responses, tasks, emitted>>
    /\ UNCHANGED api

\* Lines 121-122: the handle is set, connect() returns at once.
ConnectNoop ==
    /\ ~HandleFree
    /\ op' = [name |-> "connect_noop", arg |-> 0]
    /\ UNCHANGED <<evt, sources, responses, tasks, emitted>>
    /\ UNCHANGED api

\* A connect() that awaits the decode loop instead of scheduling it: the loop
\* runs inside connect() up to its first suspension, the read of the response.
HandshakeOKInline(s) ==
    /\ s \in 1 .. Len(sources)
    /\ sources[s].hs = "pending"
    /\ Len(responses) < MaxResponses
    /\ emitted' = OnOpen(emitted, s)
    /\ responses' = Append(responses, NewResponse(s))
    /\ sources' = [sources EXCEPT
            ![s].ready = IF @ # "CLOSED" THEN "OPEN" ELSE @,
            ![s].response = Len(responses) + 1,
            ![s].hs = "ok"]
    /\ tasks' = Append(tasks, [source |-> evt, creator |-> s,
                               pc |-> IF evt = s THEN "read" ELSE "start",
                               rd |-> IF evt = s THEN Len(responses) + 1 ELSE None,
                               cur |-> NoEvent, outcome |-> "none"])
    /\ op' = Step
    /\ UNCHANGED evt
    /\ UNCHANGED api

\* Line 128, `await self._evt.connect(retry)`, answered by a 200 event-stream
\* response; then lines 130-142: the decode loop is created over the source
\* that self._evt names NOW, and scheduled.
HandshakeOK(s) ==
    /\ s \in 1 .. Len(sources)
    /\ sources[s].hs = "pending"
    /\ Len(responses) < MaxResponses
    /\ emitted' = OnOpen(emitted, s)
    /\ responses' = Append(responses, NewResponse(s))
    /\ sources' = [sources EXCEPT
            ![s].ready = IF @ # "CLOSED" THEN "OPEN" ELSE @,
            ![s].response = Len(responses) + 1,
            ![s].hs = "ok"]
    /\ tasks' = Append(tasks, [source |-> evt, creator |-> s, pc |-> "start",
                               rd |-> None, cur |-> NoEvent,
                               outcome |-> "none"])
    /\ op' = Step
    /\ UNCHANGED evt
    /\ UNCHANGED api

\* Line 128, the request fails with ClientConnectionError: with budget left
\* (and the source not closed) on_error() is called and the request repeated;
\* otherwise the failure is announced and raised out of connect().
HandshakeConnErr(s) ==
    /\ s \in 1 .. Len(sources)
    /\ sources[s].hs = "pending"
    /\ IF sources[s].retry <= 0 \/ sources[s].ready = "CLOSED"
       THEN /\ emitted' = OnFail(emitted, s)
            /\ sources' = [sources EXCEPT ![s].ready = "CLOSED",
                                          ![s].hs = "failed"]
       ELSE /\ emitted' = Emit(emitted, "error", NoPayload, 0, s)
            /\ sources' = [sources EXCEPT ![s].ready = "CONNECTING",
                                          ![s].retry = @ - 1]
    /\ op' = Step
    /\ UNCHANGED <<evt, responses, tasks>>
    /\ UNCHANGED api

\* Line 128, the server answers with a status or content type that is not an
\* event stream: announced and raised out of connect(), whatever the budget.
HandshakeBadStatus(s) ==
    /\ s \in 1 .. Len(sources)
    /\ sources[s].hs = "pending"
    /\ emitted' = OnFail(emitted, s)
    /\ sources' = [sources EXCEPT ![s].ready = "CLOSED",
                                          ![s].hs = "failed"]
    /\ op' = Step
    /\ UNCHANGED <<evt, responses, tasks>>
    /\ UNCHANGED api

\* ----------------------------------------------------------------- end()
\* EventSource.close(): the source is closed, its response closed and dropped.
\* The session is the caller's, so close() has no suspension point and end()
\* runs in one stretch.
CloseSource(srcs, s, phase) ==
    [srcs EXCEPT ![s].ready = "CLOSED", ![s].response = None, ![s].ended = phase]

CloseResponse(resps, r) ==
    IF r = None THEN resps ELSE [resps EXCEPT ![r].closed = TRUE]

\* An end() that announces the shutdown.
EndPublishing ==
    /\ evt # None
    /\ responses' = CloseResponse(responses, sources[evt].response)
    /\ sources' = CloseSource(sources, evt, Phase(evt))
    /\ evt' = None
    /\ op' = [name |-> "end", arg |-> 0]
    /\ emitted' = Emit(emitted, "disconnected", NoPayload, 0, evt)
    /\ UNCHANGED tasks
    /\ UNCHANGED api

\* Lines 144-147 with a handle.
End ==
    /\ evt # None
    /\ responses' = CloseResponse(responses, sources[evt].response)
    /\ sources' = CloseSource(sources, evt, Phase(evt))
    /\ evt' = None
    /\ op' = [name |-> "end", arg |-> 0]
    /\ UNCHANGED <<tasks, emitted>>
    /\ UNCHANGED api

\* Lines 144-145 without a handle.
EndNoop ==
    /\ evt = None
    /\ op' = [name |-> "end_noop", arg |-> 0]
    /\ UNCHANGED <<evt, sources, responses, tasks, emitted>>
    /\ UNCHANGED api

\* ------------------------------------------------------------- transport
\* A decode loop is suspended in the read of response r.
Reading(r) == \E t \in 1 .. Len(tasks) : tasks[t].pc = "read" /\ tasks[t].rd = r

\* The server pushes one event on an open response.  What the transport does
\* is seen only by a reader, so its steps are taken while one is suspended.
Deliver(r, d) ==
    /\ r \in 1 .. Len(responses)
    /\ responses[r].line = "live"
    /\ ~responses[r].closed
    /\ Delivered < MaxEvents
    /\ Len(responses[r].feed) < MaxBuffered
    /\ Reading(r)
    /\ LET e == [n |-> Delivered + 1, data |-> d] IN
       responses' = [responses EXCEPT ![r].feed = Append(@, e),
                                      ![r].hist = Append(@, e)]
    /\ op' = Step
    /\ UNCHANGED <<evt, sources, tasks, emitted>>
    /\ UNCHANGED api

\* The stream of a response ends: cleanly ("eof"), with a connection-level
\* failure ("connerr", a ClientConnectionError) or with another failure
\* ("other", e.g. a payload error).
LineKinds == {"eof", "connerr", "other"}

TransportEnd(r, kind) ==
    /\ r \in 1 .. Len(responses)
    /\ responses[r].line = "live"
    /\ ~responses[r].closed
    /\ responses[r].feed = <<>>
    /\ Reading(r)
    /\ responses' = [responses EXCEPT ![r].line = kind]
    /\ op' = Step
    /\ UNCHANGED <<evt, sources, tasks, emitted>>
    /\ UNCHANGED api


\* ----------------------------------------------------- _process_data (loop)
\* A handler that also takes the built-in ConnectionError for a lost connection.
IsNetworkError(x) == x \in {"ClientConnectionError", "ConnectionError"}

\* Line 136, `except ClientConnectionError`.
IsConnectionError(x) == x = "ClientConnectionError"

\* A handler that reports the failure and lets the loop go on.
FailKeepsLooping(tks, log, t, x) ==
    [tks |-> [tks EXCEPT ![t].pc = "loop", ![t].rd = None, ![t].cur = NoEvent],
     log |-> Emit(log, IF IsConnectionError(x) THEN "disconnected"
                       ELSE "clientError",
                  ExcPayload(x), t, tks[t].source)]

\* The loop ends: `except ClientConnectionError` publishes `disconnected`
\* (lines 136-137), `except Exception` publishes `clientError` (lines 138-139).
Fail(tks, log, t, x) ==
    [tks |-> [tks EXCEPT ![t].pc = "done", ![t].rd = None, ![t].cur = NoEvent,
                         ![t].outcome = IF IsConnectionError(x)
                                        THEN "disconnected" ELSE "clientError"],
     log |-> Emit(log, IF IsConnectionError(x) THEN "disconnected"
                       ELSE "clientError",
                  ExcPayload(x), t, tks[t].source)]

\* A loop that publishes no `rawdata`.
RawPublishSkipped(log, e, t, s) == log

\* Line 133, emit("rawdata", evt).
RawPublish(log, e, t, s) == Emit(log, "rawdata", EvtPayload(e), t, s)

\* A loop that publishes `message` without the decoded value.
MsgPublishNoPayload(log, v, t, s) == Emit(log, "message", NoPayload, t, s)

\* Line 135, emit("message", msg).
MsgPublish(log, v, t, s) == Emit(log, "message", MsgPayload(v), t, s)

\* Line 132, `async for evt in event_source` asks for the next event: a None
\* source is not iterable (TypeError), a source without a response raises
\* ValueError, otherwise the loop reads the source's current response.
TaskEnter(t) ==
    /\ t \in 1 .. Len(tasks)
    /\ tasks[t].pc \in {"start", "loop"}
    /\ LET s == tasks[t].source IN
       IF s = None
       THEN LET f == Fail(tasks, emitted, t, "TypeError") IN
            tasks' = f.tks /\ emitted' = f.log
       ELSE IF sources[s].response = None
       THEN LET f == Fail(tasks, emitted, t, "ValueError") IN
            tasks' = f.tks /\ emitted' = f.log
       ELSE /\ tasks' = [tasks EXCEPT ![t].pc = "read",
                                      ![t].rd = sources[s].response]
            /\ emitted' = emitted
    /\ op' = Step
    /\ UNCHANGED <<evt, sources, responses>>
    /\ UNCHANGED api

\* Line 132 resumes from the read, then line 133 and the start of line 134:
\* an event is published as `rawdata` and its parse handed to the executor.
\* A response closed under the reader, or lost by the transport, raises; a
\* clean end makes the source call on_error() and wait before it reconnects.
TaskRead(t) ==
    /\ t \in 1 .. Len(tasks)
    /\ tasks[t].pc = "read"
    /\ LET r == tasks[t].rd
           s == tasks[t].source
       IN
       IF responses[r].closed
       THEN LET f == Fail(tasks, emitted, t, "ClientConnectionError") IN
            tasks' = f.tks /\ emitted' = f.log /\ UNCHANGED <<sources, responses>>
       ELSE IF responses[r].feed # <<>>
       THEN LET e == Head(responses[r].feed) IN
            /\ responses' = [responses EXCEPT ![r].feed = Tail(@)]
            /\ emitted' = RawPublish(emitted, e, t, s)
            /\ tasks' = [tasks EXCEPT ![t].pc = "parse", ![t].cur = e]
            /\ UNCHANGED sources
       ELSE /\ responses[r].line # "live"
            /\ IF responses[r].line = "connerr"
               THEN LET f == Fail(tasks, emitted, t, "ClientConnectionError") IN
                    tasks' = f.tks /\ emitted' = f.log /\ UNCHANGED sources
               ELSE IF responses[r].line = "other"
               THEN LET f == Fail(tasks, emitted, t, "ClientPayloadError") IN
                    tasks' = f.tks /\ emitted' = f.log /\ UNCHANGED sources
               ELSE /\ sources' = [sources EXCEPT ![s].ready = "CONNECTING"]
                    /\ emitted' = Emit(emitted, "error", NoPayload, 0, s)
                    /\ tasks' = [tasks EXCEPT ![t].pc = "sleep"]
            /\ UNCHANGED responses
    /\ op' = Step
    /\ UNCHANGED evt
    /\ UNCHANGED api

\* Lines 134-135: run_in_executor(json.loads) completes; the value is
\* published as `message` and the loop goes on, or the JSONDecodeError is
\* caught at line 138.
TaskParsed(t) ==
    /\ t \in 1 .. Len(tasks)
    /\ tasks[t].pc = "parse"
    /\ LET res == JsonLoads(tasks[t].cur.data) IN
       IF res.ok
       THEN /\ emitted' = MsgPublish(emitted, res.val, t, tasks[t].source)
            /\ tasks' = [tasks EXCEPT ![t].pc = "loop", ![t].cur = NoEvent]
       ELSE LET f == Fail(tasks, emitted, t, "JSONDecodeError") IN
            tasks' = f.tks /\ emitted' = f.log
    /\ op' = Step
    /\ UNCHANGED <<evt, sources, responses>>
    /\ UNCHANGED api

\* Line 132, inside the source's iteration after a clean end: the reconnect
\* (EventSource.connect with no retry budget) succeeds and the loop reads the
\* new response.
TaskReconnectOK(t) ==
    /\ t \in 1 .. Len(tasks)
    /\ tasks[t].pc = "sleep"
    /\ Len(responses) < MaxResponses
    /\ LET s == tasks[t].source IN
       /\ emitted' = OnOpen(emitted, s)
       /\ responses' = Append(responses, NewResponse(s))
       /\ sources' = [sources EXCEPT
               ![s].ready = IF @ # "CLOSED" THEN "OPEN" ELSE @,
               ![s].response = Len(responses) + 1]
       /\ tasks' = [tasks EXCEPT ![t].pc = "read", ![t].rd = Len(responses) + 1]
    /\ op' = Step
    /\ UNCHANGED evt
    /\ UNCHANGED api

\* The reconnect fails: the failure is announced (unless the source is closed)
\* and raised into the loop, a ClientConnectionError when the request failed,
\* a ConnectionError when the server answered with a wrong status.
ReconnectFailures == {"ClientConnectionError", "ConnectionError"}

TaskReconnectFail(t, x) ==
    /\ t \in 1 .. Len(tasks)
    /\ tasks[t].pc = "sleep"
    /\ LET s == tasks[t].source
           f == Fail(tasks, OnFail(emitted, s), t, x)
       IN
       /\ tasks' = f.tks
       /\ emitted' = f.log
       /\ sources' = [sources EXCEPT ![s].ready = "CLOSED"]
    /\ op' = Step
    /\ UNCHANGED <<evt, responses>>
    /\ UNCHANGED api

\* ------------------------------------------------------------ specification
Next ==
    \/ \E r \in RetryInputs : Connect(r)
    \/ ConnectNoop
    \/ \E s \in 1 .. MaxSources : HandshakeOK(s)
    \/ \E s \in 1 .. MaxSources : HandshakeConnErr(s)
    \/ \E s \in 1 .. MaxSources : HandshakeBadStatus(s)
    \/ End
    \/ EndNoop
    \/ \E r \in 1 .. MaxResponses, d \in EventData : Deliver(r, d)
    \/ \E r \in 1 .. MaxResponses, k \in LineKinds : TransportEnd(r, k)
    \/ \E t \in 1 .. MaxSources : TaskEnter(t)
    \/ \E t \in 1 .. MaxSources : TaskRead(t)
    \/ \E t \in 1 .. MaxSources : TaskParsed(t)
    \/ \E t \in 1 .. MaxSources : TaskReconnectOK(t)
    \/ \E t \in 1 .. MaxSources, x \in ReconnectFailures : TaskReconnectFail(t, x)

Spec == Init /\ [][Next]_vars

TypeOK ==
    /\ evt \in 0 .. MaxSources
    /\ Len(sources) <= MaxSources
    /\ Len(responses) <= MaxResponses
    /\ Len(tasks) <= Len(sources)


\* ------------------------------------------------------------ Python values
\* The values the Session handles, each with its type: None, a string, an
\* integer, a list and a dict (a function from its keys).
PyNone == [k |-> "none"]
PyStr(s) == [k |-> "str", v |-> s]
PyInt(n) == [k |-> "int", v |-> n]
PyList(l) == [k |-> "list", v |-> l]
PyDict(d) == [k |-> "dict", v |-> d]

\* What list() and dict() hold: nothing.
NoItems == [q \in {} |-> PyNone]

\* Truth value testing: None, "", 0 and the empty containers are false.
Truthy(x) ==
    IF x.k = "none" THEN FALSE
    ELSE IF x.k = "str" THEN x.v # ""
    ELSE IF x.k = "int" THEN x.v # 0
    ELSE DOMAIN x.v # {}

\* `x or d`.
Or(x, d) == IF Truthy(x) THEN x ELSE d

\* dict.update: the keys of b are added to a, and replace those a has.
Update(a, b) ==
    [q \in DOMAIN a \cup DOMAIN b |-> IF q \in DOMAIN b THEN b[q] ELSE a[q]]

\* sep.join(l) for a list of strings.
RECURSIVE Join(_, _)
Join(sep, l) ==
    IF Len(l) = 0 THEN ""
    ELSE IF Len(l) = 1 THEN l[1]
    ELSE l[1] \o sep \o Join(sep, Tail(l))

\* str.lower() on the method names.
Lower(m) ==
    IF m = "GET" THEN "get"
    ELSE IF m = "POST" THEN "post"
    ELSE IF m = "PUT" THEN "put"
    ELSE IF m = "DELETE" THEN "delete"
    ELSE m

\* dict(*positional, **kw): more than one positional argument is a TypeError,
\* one must be a mapping, none gives the keywords.
DictCall(positional, kw) ==
    IF Len(positional) > 1 THEN [ok |-> FALSE, val |-> PyNone]
    ELSE IF Len(positional) = 1
         THEN IF positional[1].k = "dict"
              THEN [ok |-> TRUE, val |-> PyDict(Update(positional[1].v, kw))]
              ELSE [ok |-> FALSE, val |-> PyNone]
    ELSE [ok |-> TRUE, val |-> PyDict(kw)]

\* ------------------------------------------------------------------ Session
MaxCalls == 2        \* requests handed to the transport session, in total

\* Line 22: the token made of email and password.
Auth == "Basic dXNlcjpwdw=="

\* Lines 11-12 and 20, 118: the base URLs.
Url == "https://api.flowdock.com"

StreamUrl == "https://stream.flowdock.com/flows"

\* A keyword argument that is not passed.
Absent == [k |-> "absent"]

\* Lines 88-92.
Header ==
    ("Authorization" :> Auth) @@ ("Accept" :> "application/json")
    @@ ("Content-Type" :> "application/json")

\* What a method does up to its first suspension: it raises, or it hands one
\* request to the transport session.
Raise(x) == [raised |-> TRUE, exc |-> x, req |-> Absent]
Issue(req) == [raised |-> FALSE, exc |-> "none", req |-> req]

\* Lines 85-101, up to `await self.session.request(method, url, **options)`.
Request(method, path, data) ==
    LET d == Or(data, PyDict(NoItems))
        url == Join("/", <<Url, path>>)
    IN Issue([via |-> "session.request", method |-> method, url |-> url,
              headers |-> Header,
              params |-> IF Lower(method) = "get" THEN d ELSE Absent,
              json |-> IF Lower(method) = "get" THEN Absent ELSE d])

\* Lines 73-83.
Post(path, data) == Request("post", path, data)
Get(path, data) == Request("get", path, data)
Put(path, data) == Request("put", path, data)
Delete(path) == Request("delete", path, PyNone)

\* Lines 30-34.
Flows == Get("/flows", PyDict([users |-> PyInt(1)]))
Send(path, message) == Post(path, message)

\* Lines 36-39.
Message(a) ==
    LET tags == Or(a.tags, PyList(NoItems)) IN
    Send("/messages",
         PyDict([flow |-> PyStr(a.flow_id), event |-> PyStr("message"),
                 content |-> PyStr(a.msg), tags |-> tags]))

\* Lines 41-44: flow_id and thread_id are passed to dict() as positional
\* arguments.
ThreadMessage(a) ==
    LET tags == Or(a.tags, PyList(NoItems))
        data == DictCall(<<PyStr(a.flow_id), PyStr(a.thread_id)>>,
                         [event |-> PyStr("message"), content |-> PyStr(a.msg),
                          tags |-> tags])
    IN IF data.ok THEN Send("/messages", data.val) ELSE Raise("TypeError")

\* Lines 46-54.
Comment(a) ==
    Send("/comments",
         PyDict([event |-> PyStr("comment"), flow |-> PyStr(a.flow_id),
                 message |-> PyStr(a.parent_id), content |-> PyStr(a.comment),
                 tags |-> Or(a.tags, PyList(NoItems))]))

\* Lines 56-58.
PrivateMessage(a) ==
    Send("/private/" \o a.user_id \o "/messages",
         PyDict([event |-> PyStr("message"), content |-> PyStr(a.msg),
                 tags |-> Or(a.tags, PyList(NoItems))]))

\* Lines 60-62.
Status(a) ==
    Send("/messages",
         PyDict([event |-> PyStr("status"), content |-> PyStr(a.status),
                 flow |-> PyStr(a.flow_id)]))

\* Lines 64-67.
Invite(a) ==
    Send("/flows/" \o a.org_id \o "/" \o a.flow_id \o "/invitations",
         PyDict([email |-> PyStr(a.email), message |-> PyStr(a.msg)]))

\* Lines 69-71.
EditMessage(a) ==
    Put("/flows/" \o a.org_id \o "/" \o a.flow_id \o "/message/" \o a.msg_id,
        a.data)

\* The higher-level operations, and the method a call names.
Wrappers == {"message", "thread_message", "comment", "private_message",
             "status", "invite", "edit_message"}

Dispatch(c) ==
    CASE c.fn = "message" -> Message(c)
      [] c.fn = "thread_message" -> ThreadMessage(c)
      [] c.fn = "comment" -> Comment(c)
      [] c.fn = "private_message" -> PrivateMessage(c)
      [] c.fn = "status" -> Status(c)
      [] c.fn = "invite" -> Invite(c)
      [] c.fn = "edit_message" -> EditMessage(c)
      [] c.fn = "flows" -> Flows
      [] c.fn = "send" -> Send(c.path, c.data)
      [] c.fn = "post" -> Post(c.path, c.data)
      [] c.fn = "get" -> Get(c.path, c.data)
      [] c.fn = "put" -> Put(c.path, c.data)
      [] c.fn = "delete" -> Delete(c.path)
      [] c.fn = "request" -> Request(c.method, c.path, c.data)

\* The arguments callers pass.
TagInputs == {PyNone, PyList(NoItems), PyList(<<"t">>)}

DataInputs == {PyNone, PyDict(NoItems), PyDict([id |-> PyInt(1)])}

Methods == {"get", "GET", "post", "put", "delete"}

Calls ==
    {[fn |-> "message", flow_id |-> "f", msg |-> "hi", tags |-> t] : t \in TagInputs}
    \cup {[fn |-> "thread_message", flow_id |-> "f", thread_id |-> "th",
           msg |-> "hi", tags |-> t] : t \in TagInputs}
    \cup {[fn |-> "comment", flow_id |-> "f", parent_id |-> "7",
           comment |-> "hi", tags |-> t] : t \in TagInputs}
    \cup {[fn |-> "private_message", user_id |-> "u", msg |-> "hi", tags |-> t] :
            t \in TagInputs}
    \cup {[fn |-> "status", flow_id |-> "f", status |-> "away"],
          [fn |-> "invite", flow_id |-> "f", org_id |-> "o", email |-> "e@x",
           msg |-> "hi"],
          [fn |-> "flows"],
          [fn |-> "delete", path |-> "/x"]}
    \cup {[fn |-> "edit_message", flow_id |-> "f", org_id |-> "o", msg_id |-> "7",
           data |-> d] : d \in DataInputs}
    \cup {[fn |-> f, path |-> "/x", data |-> d] :
            f \in {"send", "post", "get", "put"}, d \in DataInputs}
    \cup {[fn |-> "request", method |-> m, path |-> "/x", data |-> d] :
            m \in Methods, d \in DataInputs}

\* The status codes the server answers with, and the failures of the transport.
Statuses == {200, 201, 299, 300, 404, 500}

TransportFailures == {"ClientConnectionError", "TimeoutError"}

\* Line 102, `resp.status >= 300`.
ErrorStatus == 300

Exc(name, status, context) == [name |-> name, status |-> status, context |-> context]

\* The previous call is over, and the transport has room for another request.
Ready ==
    /\ call.pc \in {"idle", "returned", "raised", "connected"}
    /\ Len(sent) < MaxCalls

\* A caller calls a method of the Session; it runs up to line 101.
Invoke(c) ==
    /\ Ready
    /\ LET o == Dispatch(c) IN
       IF o.raised
       THEN /\ call' = [NoCall EXCEPT !.pc = "raised", !.fn = c.fn, !.args = c,
                                      !.exc = Exc(o.exc, 0, "none")]
            /\ sent' = sent
       ELSE /\ call' = [NoCall EXCEPT !.pc = "request", !.fn = c.fn, !.args = c,
                                      !.issued = 1]
            /\ sent' = Append(sent, o.req)
    /\ UNCHANGED published
    /\ UNCHANGED stream

\* Class Session (lines 15-107) has no base class and defines no `emit`.
SessionHasEmit == FALSE

\* Lines 105-107: `self.emit("error", e)`, then `return e`.  Without an `emit`
\* attribute the handler itself raises AttributeError, out of the call.
Handler(e) ==
    IF SessionHasEmit
    THEN /\ published' = Append(published, [cat |-> "error", payload |-> e])
         /\ call' = [call EXCEPT !.pc = "returned",
                                 !.result = [k |-> "failure", exc |-> e]]
    ELSE /\ published' = published
         /\ call' = [call EXCEPT !.pc = "raised",
                                 !.exc = Exc("AttributeError", 0, e.name)]

\* Line 101 resumes with a response; line 102 tests its status.
Respond(st) ==
    /\ call.pc = "request"
    /\ call' = [call EXCEPT !.status = st,
                            !.pc = IF st >= ErrorStatus THEN "text" ELSE "json"]
    /\ UNCHANGED <<sent, published>>
    /\ UNCHANGED stream

\* Line 101 raises: the transport failed.
RequestFails(x) ==
    /\ call.pc = "request"
    /\ Handler(Exc(x, 0, "none"))
    /\ UNCHANGED sent
    /\ UNCHANGED stream

\* Line 103: the text of the response is read and ValueError raised with the
\* status, or the read fails.
TextRead(ok) ==
    /\ call.pc = "text"
    /\ Handler(IF ok THEN Exc("ValueError", call.status, "none")
               ELSE Exc("ClientPayloadError", 0, "none"))
    /\ UNCHANGED sent
    /\ UNCHANGED stream

\* Line 104: the body is decoded and returned with the response, or the
\* decoding fails.
JsonRead(ok) ==
    /\ call.pc = "json"
    /\ IF ok
       THEN /\ call' = [call EXCEPT !.pc = "returned",
                                    !.result = [k |-> "response",
                                                status |-> call.status]]
            /\ published' = published
       ELSE Handler(Exc("ContentTypeError", 0, "none"))
    /\ UNCHANGED sent
    /\ UNCHANGED stream

\* ------------------------------------------------- Session.stream, _options
\* The channel sets and connection options callers pass to stream().
FlowInputs == {PyStr("a"), PyList(<<"a">>), PyList(<<"a", "b">>)}

OptionInputs ==
    {PyNone, PyDict(NoItems), PyDict([active |-> PyStr("true")]),
     PyDict([filter |-> PyStr("x")]),
     PyDict([filter |-> PyStr("x"), active |-> PyStr("true")])}

StreamCalls ==
    {[fn |-> "stream", flows |-> f, options |-> o] :
       f \in FlowInputs, o \in OptionInputs}

\* Lines 24-28 and 111-118: the EventStream that stream() constructs.
NewStream(c) ==
    LET options == Or(c.options, PyDict(NoItems))
        flows == IF c.flows.k # "list" THEN PyList(<<c.flows.v>>) ELSE c.flows
    IN [k |-> "stream", auth |-> Auth, flows |-> flows.v,
        params |-> Or(options, PyDict(NoItems)).v]

\* Lines 149-159.
Options(auth, flows, params) ==
    LET qs == Update([filter |-> PyStr(Join(",", flows))], params) IN
    [params |-> qs, headers |-> ("Authorization" :> auth)]

\* A caller calls stream(); it returns the EventStream at once.
StreamCall(c) ==
    /\ Ready
    /\ call' = [NoCall EXCEPT !.pc = "returned", !.fn = "stream", !.args = c,
                              !.result = NewStream(c)]
    /\ UNCHANGED <<sent, published>>
    /\ UNCHANGED stream

\* Lines 123-126 on the stream that was made: the event source is constructed
\* with the parameters and headers of _options().
StreamConnect ==
    /\ call.fn = "stream"
    /\ call.pc = "returned"
    /\ Len(sent) < MaxCalls
    /\ LET o == Options(call.result.auth, call.result.flows, call.result.params) IN
       sent' = Append(sent, [via |-> "EventSource", method |-> "get",
                             url |-> StreamUrl, headers |-> o.headers,
                             params |-> PyDict(o.params), json |-> Absent])
    /\ call' = [call EXCEPT !.pc = "connected", !.issued = 1]
    /\ UNCHANGED published
    /\ UNCHANGED stream

ApiNext ==
    \/ \E c \in Calls : Invoke(c)
    \/ \E st \in Statuses : Respond(st)
    \/ \E x \in TransportFailures : RequestFails(x)
    \/ \E ok \in BOOLEAN : TextRead(ok)
    \/ \E ok \in BOOLEAN : JsonRead(ok)
    \/ \E c \in StreamCalls : StreamCall(c)
    \/ StreamConnect

ApiSpec == Init /\ [][ApiNext]_vars


\* ------------------------------------------------------------------ claims
Idx == 1 .. Len(emitted)

\* Entry j is the latest notification of the decode loop of entry i before i.
PrevOfTask(j, i) ==
    /\ j < i
    /\ emitted[j].task = emitted[i].task
    /\ \A k \in (j + 1) .. (i - 1) : emitted[k].task # emitted[i].task

\* C1: every `message` is preceded, in its decode loop, by the `rawdata` of the
\* same event and carries the JSON parse of that event's data; and every
\* valid event published as `rawdata` is followed by its `message` as soon as
\* its parse has completed.
C1_RawdataThenMessage ==
    /\ \A i \in Idx :
         emitted[i].cat = "message" =>
           \E j \in Idx :
             /\ PrevOfTask(j, i)
             /\ emitted[j].cat = "rawdata"
             /\ JsonLoads(emitted[j].payload.data.data).ok
             /\ emitted[i].payload = MsgPayload(JsonLoads(emitted[j].payload.data.data).val)
    /\ \A j \in Idx :
         (emitted[j].cat = "rawdata" /\ JsonLoads(emitted[j].payload.data.data).ok) =>
           \/ /\ tasks[emitted[j].task].pc = "parse"
              /\ tasks[emitted[j].task].cur = emitted[j].payload.data
              /\ \A k \in (j + 1) .. Len(emitted) : emitted[k].task # emitted[j].task
           \/ \E i \in Idx : PrevOfTask(j, i) /\ emitted[i].cat = "message"

\* A number written after white space has been published as the number.
C1_Witness ==
    \E i \in Idx :
      /\ emitted[i].cat = "message"
      /\ emitted[i].payload.val = JNum(1)
      /\ \E j \in Idx : PrevOfTask(j, i) /\ emitted[j].payload.data.data = <<" ", "1">>

\* The `clientError` of a malformed event: entry i reports a JSONDecodeError.
Malformed(i) ==
    /\ emitted[i].cat = "clientError"
    /\ emitted[i].payload.exc = "JSONDecodeError"

Srcs == 1 .. Len(sources)

\* No end() has closed a connection yet.
NoEnd == \A s \in Srcs : sources[s].ended = "no"

\* C3: as long as end() has not been called, all the connect() calls made
\* have constructed one event source and started one handshake between them,
\* and one decode loop is scheduled, over that source, once the handshake has
\* succeeded (none before, and none if it fails).
C3_SecondConnectNoop ==
    NoEnd =>
      /\ Len(sources) <= 1
      /\ \A s \in Srcs :
           /\ evt = s
           /\ sources[s].hs = "ok" => (Len(tasks) = 1 /\ tasks[1].source = s)
           /\ sources[s].hs # "ok" => Len(tasks) = 0

\* A second connect() has returned while the first is suspended in the handshake.
C3_Witness ==
    /\ op.name = "connect_noop"
    /\ NoEnd
    /\ Len(sources) = 1
    /\ sources[1].hs = "pending"

\* C4 as stated: after a connection was closed, by end() while open or after
\* its handshake or decode loop had failed, no new event source is constructed.
C4_Original ==
    \A s \in Srcs : s < Len(sources) => sources[s].ended \notin {"open", "closed"}

\* C4 amended: a connection that end() has not closed keeps the handle, so
\* connect() is a no-op, also after a failed handshake or a finished decode
\* loop; a new event source is constructed only after end() cleared the handle.
C4_ReopenOnlyAfterEnd ==
    \A s \in Srcs : sources[s].ended = "no" => (evt = s /\ s = Len(sources))

\* connect() has returned at once on an object whose decode loop is over.
C4_Witness ==
    /\ op.name = "connect_noop"
    /\ sources[evt].hs = "ok"
    /\ Phase(evt) = "closed"

\* The object is Idle or Closed: no handle, or a handle on a closed connection.
IdleOrClosed == IF evt = None THEN TRUE ELSE Phase(evt) = "closed"

EndCalled == op'.name \in {"end", "end_noop"}

\* C5 as stated: end() on an Idle or Closed object changes nothing.
C5_Original ==
    [][ (EndCalled /\ IdleOrClosed) =>
          UNCHANGED <<evt, sources, responses, tasks, emitted>> ]_vars

\* C5 amended: end() on an Idle or Closed object publishes nothing and leaves
\* the handle cleared; without a handle (Idle, or closed by end()) it changes
\* nothing; with the handle of a connection closed by a failure it closes
\* that event source and its response.
C5_EndOnClosed ==
    [][ (EndCalled /\ IdleOrClosed) =>
          /\ emitted' = emitted
          /\ tasks' = tasks
          /\ evt' = None
          /\ evt = None => UNCHANGED <<sources, responses>>
          /\ evt # None =>
               /\ sources'[evt].ready = "CLOSED"
               /\ sources'[evt].response = None
               /\ \A r \in 1 .. Len(responses) :
                    responses'[r].closed =
                      (responses[r].closed \/ r = sources[evt].response) ]_vars

\* end() has been called on a connection that a failure had closed, and again.
C5_Witness ==
    /\ op.name = "end_noop"
    /\ \E s \in Srcs : sources[s].ended = "closed"

\* The notifications published by the step: the entries appended to the log.
NewIdx == (Len(emitted) + 1) .. Len(emitted')

\* Entry i of the log after the step belongs to a connection that end()
\* closed while it was open.
OfEndedOpen(i) ==
    /\ emitted'[i].src # None
    /\ sources[emitted'[i].src].ended = "open"

\* C6: once end() has closed an open connection, that connection publishes no
\* `disconnected`, `clientError` or `error` notification.
C6_Original ==
    [][ \A i \in NewIdx :
          OfEndedOpen(i) =>
            emitted'[i].cat \notin {"disconnected", "clientError", "error"} ]_vars

\* C7: once end() has closed an open connection, no `rawdata` notification is
\* published for that connection.
C7_Original ==
    [][ \A i \in NewIdx : OfEndedOpen(i) => emitted'[i].cat # "rawdata" ]_vars


TasksOn(s) == {t \in 1 .. Len(tasks) : tasks[t].source = s}

RespOf(s) == {r \in 1 .. Len(responses) : responses[r].src = s}

\* What a listener observes of connection s, the `error` notifications of
\* failed handshake attempts apart.
IsVisible(s, n) == n.src = s /\ n.cat # "error"

Visible(s) ==
    LET RECURSIVE Sel(_)
        Sel(i) == IF i = 0 THEN <<>>
                  ELSE IF IsVisible(s, emitted[i])
                       THEN Append(Sel(i - 1), emitted[i])
                       ELSE Sel(i - 1)
    IN Sel(Len(emitted))

\* `rawdata` then `message`, for each event of h in order, from loop t over s.
RECURSIVE Pairs(_, _, _)
Pairs(h, t, s) ==
    IF h = <<>> THEN <<>>
    ELSE <<[cat |-> "rawdata", payload |-> EvtPayload(Head(h)), task |-> t, src |-> s],
           [cat |-> "message", payload |-> MsgPayload(JsonLoads(Head(h).data).val),
            task |-> t, src |-> s]>>
         \o Pairs(Tail(h), t, s)

AllValid(h) == \A k \in 1 .. Len(h) : JsonLoads(h[k].data).ok

\* Loop t is the only decode loop of a connection that end() has not closed.
SoleLoop(t) ==
    /\ tasks[t].source # None
    /\ sources[tasks[t].source].ended = "no"
    /\ TasksOn(tasks[t].source) = {t}

FirstResp(s) == CHOOSE r \in RespOf(s) : \A q \in RespOf(s) : r <= q

Count(s, c) == Cardinality({i \in Idx : emitted[i].src = s /\ emitted[i].cat = c})

\* C9 as stated: a failed handshake has published an `error` notification
\* that carries the failure.
C9_Original ==
    \A s \in Srcs :
      sources[s].hs = "failed" =>
        \E i \in Idx : /\ emitted[i].src = s
                       /\ emitted[i].cat = "error"
                       /\ emitted[i].payload.k = "exc"

\* C9 amended: after a failed handshake the event source is closed, connect()
\* has scheduled no decode loop and no `connected` was published; unless end()
\* was called during the handshake, an `error` notification was published,
\* and every `error` of the handshake is without payload; the handle is kept
\* until end() is called.
C9_HandshakeFailure ==
    \A s \in Srcs :
      sources[s].hs = "failed" =>
        /\ sources[s].ready = "CLOSED"
        /\ \A t \in 1 .. Len(tasks) : tasks[t].creator # s
        /\ Count(s, "connected") = 0
        /\ sources[s].ended \in {"no", "closed"} => Count(s, "error") >= 1
        /\ \A i \in Idx : (emitted[i].src = s /\ emitted[i].cat = "error") =>
                            emitted[i].payload = NoPayload
        /\ sources[s].ended = "no" => evt = s

\* A handshake has failed for good after its one retry.
C9_Witness ==
    \E s \in Srcs :
      /\ sources[s].hs = "failed"
      /\ sources[s].ended = "no"
      /\ Count(s, "error") = 2

\* C10: every successful handshake of a connection has published `connected`
\* once, with the EventStream as payload, and before every `rawdata` and
\* `message` of that connection.
C10_Original ==
    \A s \in Srcs :
      /\ Count(s, "connected") = Cardinality(RespOf(s))
      /\ \A i \in Idx :
           (emitted[i].src = s /\ emitted[i].cat = "connected") =>
              emitted[i].payload = SelfPayload
      /\ \A i \in Idx :
           (emitted[i].src = s /\ emitted[i].cat \in {"rawdata", "message"}) =>
              \E j \in 1 .. (i - 1) : emitted[j].src = s /\ emitted[j].cat = "connected"

\* C12: connect() does not wait for the event stream.  The step in which the
\* handshake completes is the step in which connect() returns: it schedules
\* one new decode loop that has not run yet, reads nothing from the response
\* it has just opened and publishes nothing but `connected`; every loop that
\* exists was scheduled by a connect() that has returned.
C12_ConnectDoesNotBlock ==
    [][ /\ \A s \in Srcs :
             (sources[s].hs = "pending" /\ sources'[s].hs = "ok") =>
               /\ Len(tasks') = Len(tasks) + 1
               /\ \A t \in 1 .. Len(tasks) : tasks'[t] = tasks[t]
               /\ tasks'[Len(tasks')].creator = s
               /\ tasks'[Len(tasks')].pc = "start"
               /\ tasks'[Len(tasks')].rd = None
               /\ Len(responses') = Len(responses) + 1
               /\ responses'[Len(responses')].hist = <<>>
               /\ responses'[Len(responses')].line = "live"
               /\ \A i \in NewIdx : emitted'[i].cat = "connected"
        /\ \A t \in 1 .. Len(tasks') : sources'[tasks'[t].creator].hs = "ok" ]_vars

\* connect() has returned and its decode loop is suspended in the read of a
\* response on which the transport has delivered nothing and which is open.
C12_Witness ==
    \E t \in 1 .. Len(tasks) :
      /\ tasks[t].pc = "read"
      /\ sources[tasks[t].creator].hs = "ok"
      /\ responses[tasks[t].rd].src = tasks[t].creator
      /\ responses[tasks[t].rd].hist = <<>>
      /\ responses[tasks[t].rd].line = "live"
      /\ ~responses[tasks[t].rd].closed

\* Notification n belongs to a push event: its `rawdata`, its `message`, or the
\* `clientError` of its failed parse.
OfAnEvent(n) ==
    IF n.cat = "clientError" THEN n.payload.exc = "JSONDecodeError"
    ELSE n.cat \in {"rawdata", "message"}

\* C13: between the `rawdata` of an event and the `message` or `clientError`
\* of that event, the EventStream publishes no notification that belongs to
\* another event, whatever connect() and end() calls were made.
C13_Original ==
    \A i \in Idx :
      emitted[i].cat = "rawdata" =>
        \A k \in (i + 1) .. Len(emitted) :
          (OfAnEvent(emitted[k]) /\ emitted[k].task # emitted[i].task) =>
            \E j \in (i + 1) .. (k - 1) : emitted[j].task = emitted[i].task

\* Notification n ends a decode loop.
Terminal(n) == n.cat \in {"disconnected", "clientError"}

C18_RetryNormalised ==
    [][ (op'.name = "connect" /\ Len(sources') = Len(sources) + 1) =>
          /\ evt' = Len(sources')
          /\ sources'[evt'].retry >= 0
          /\ sources'[evt'].retry >= op'.arg
          /\ sources'[evt'].retry \in {0, op'.arg}
          /\ sources'[evt'].hs = "pending"
          /\ emitted' = emitted ]_vars

\* connect(-1) has opened a connection whose handshake has no retry.
C18_Witness ==
    /\ op.name = "connect"
    /\ op.arg = -1
    /\ sources[evt].retry = 0
    /\ sources[evt].hs = "pending"

\* Source s was closed by end() while its connect() was suspended in the
\* handshake.
EndedConnecting(s) == sources[s].ended = "connecting"

\* The handle names no event source, or one that is closed.
HandleMissingOrClosed == IF evt = None THEN TRUE ELSE sources[evt].ready = "CLOSED"

\* The decode loop that published entry i of the log after the step was started
\* by a connect() during whose handshake end() ran.
ByLoopOfEndedConnect(i) ==
    IF emitted'[i].task = 0 THEN FALSE
    ELSE EndedConnecting(tasks[emitted'[i].task].creator)

\* C19: when end() ran while connect() was suspended in the handshake, the
\* resumed connect() starts no decode loop over a missing or closed event
\* source, and the loop it starts, if any, publishes no `clientError`,
\* `rawdata` or `message`.
C19_Original ==
    [][ /\ \A s \in Srcs :
             (/\ EndedConnecting(s)
              /\ sources[s].hs = "pending"
              /\ sources'[s].hs = "ok"
              /\ HandleMissingOrClosed)
             => Len(tasks') = Len(tasks)
        /\ \A i \in NewIdx :
             ByLoopOfEndedConnect(i) =>
               emitted'[i].cat \notin {"clientError", "rawdata", "message"} ]_vars

\* The decode loops that are not over.
LiveLoops == {t \in 1 .. Len(tasks) : tasks[t].pc # "done"}

\* C20: at most one decode loop is live, and a live loop iterates the event
\* source that the handle holds.
C20_Original ==
    /\ Cardinality(LiveLoops) <= 1
    /\ \A t \in LiveLoops : evt # None /\ tasks[t].source = evt

\* The Session call is over.
CallOver == call.pc \in {"returned", "raised"}

\* The call handed a request to the transport, which answered with a status of
\* 300 or more, or failed.
RequestFailed ==
    /\ call.fn # "stream"
    /\ call.issued = 1
    /\ CallOver
    /\ (call.status >= ErrorStatus \/ call.status = 0)

\* C11: a request that was answered with a status of 300 or more, or whose
\* transport failed, returns the failure to its caller, the failure of a
\* status carrying that status, and the same failure has been published as
\* an `error` notification by the time the call is over.
C11_Original ==
    RequestFailed =>
      /\ call.pc = "returned"
      /\ call.result.k = "failure"
      /\ call.result.exc.name = "ValueError" =>
           call.result.exc.status = call.status
      /\ \E i \in 1 .. Len(published) :
           published[i] = [cat |-> "error", payload |-> call.result.exc]

\* The channel ids and the connection options a stream() call was given.
ChannelIds(c) == IF c.flows.k = "list" THEN c.flows.v ELSE <<c.flows.v>>

GivenOptions(c) == Or(c.options, PyDict(NoItems)).v

\* C15: the event source of a stream is constructed with the query parameter
\* `filter` equal to the comma-joined channel ids, with every other option of
\* the caller unchanged and nothing else, and with Authorization as its only
\* header.
C15_Original ==
    (call.fn = "stream" /\ call.pc = "connected") =>
      LET r == sent[Len(sent)]
          given == GivenOptions(call.args)
      IN /\ r.via = "EventSource"
         /\ DOMAIN r.params.v = DOMAIN given \cup {"filter"}
         /\ r.params.v["filter"] = PyStr(Join(",", ChannelIds(call.args)))
         /\ \A q \in DOMAIN given \ {"filter"} : r.params.v[q] = given[q]
         /\ r.headers = ("Authorization" :> Auth)

\* The body a call of get, post, put or request was given, as request() sees it.
BodyGiven == Or(call.args.data, PyDict(NoItems))

\* C16: the request handed to the transport carries the body as query
\* parameters and no JSON body for `get`, as JSON body and no query parameters
\* for `post` and `put`, and neither for `delete`.
C16_Original ==
    (call.pc = "request") =>
      LET r == sent[Len(sent)]
          direct == call.fn \in {"get", "post", "put", "request"}
      IN /\ r.via = "session.request"
         /\ Lower(r.method) = "get" =>
              /\ r.json = Absent
              /\ r.params.k = "dict"
              /\ direct => r.params = BodyGiven
         /\ Lower(r.method) \in {"post", "put"} =>
              /\ r.params = Absent
              /\ r.json.k = "dict"
              /\ direct => r.json = BodyGiven
         /\ Lower(r.method) = "delete" => (r.params = Absent /\ r.json = Absent)

\* C17: a higher-level operation that was called has handed exactly one
\* request to the primitive, whatever its arguments; it has not failed before.
C17_Original ==
    (call.fn \in Wrappers /\ call.pc # "idle") =>
      /\ call.issued = 1
      /\ Len(sent) >= 1
      /\ sent[Len(sent)].via = "session.request"
      /\ Lower(sent[Len(sent)].method) \in {"post", "put"}

====
